---- MODULE Spec2Model ----
(***************************************************************************)
(* Model of the weather aggregation pipeline of open-meteo-api:            *)
(* src/src/weather_data_extraction.py with the constants of               *)
(* src/src/consts.py.                                                      *)
(*                                                                         *)
(* A data frame is a sequence of rows, a row is a record (a function from  *)
(* column names to values).  Geographic coordinates and temperatures are   *)
(* integers; the textual form that astype(str) gives a coordinate is the   *)
(* tagged value AsStr(x), so a float and its text are different values     *)
(* and two texts are equal exactly when the floats are.  A timestamp is a  *)
(* number of hours; a mean is an exact fraction in lowest terms.           *)
(***************************************************************************)
EXTENDS Integers, Sequences, FiniteSets, TLC

VARIABLES
    cities,               \* argument of get_weather_data
    now,                  \* the clock read by pd.to_datetime('today')
    pc,                   \* position of the run
    error,                \* the exception that ended the run, if any
    lats, lots,           \* the lists built by create_coordinates_dict
    calls,                \* outbound calls issued so far, in order
    main_response,        \* response received for the main weather request
    historical_response,  \* response received for the historical request
    weather_df,           \* load_aggregate_weather_data: exploded raw rows
    last_week_df,         \* load_aggregate_weather_data: past-window rows
    filtered_temps,       \* load_aggregate_weather_data: gate survivors
    filtered_weather_df,  \* load_aggregate_weather_data: re-joined rows
    aggregated_df,        \* result of load_aggregate_weather_data
    final_df,             \* result of append_historical_data
    result                \* what get_weather_data returned: <<>> or two tables

vars == <<cities, now, pc, error, lats, lots, calls, main_response,
          historical_response, weather_df, last_week_df, filtered_temps,
          filtered_weather_df, aggregated_df, final_df, result>>

----------------------------------------------------------------------------
(* Program constants (src/src/consts.py)                                   *)

ELEVATION_THRESHOLD == 50
AVERAGE_TEMP_THRESHOLD == 20

GEO_FIELDS ==
    <<"latitude", "longitude", "elevation", "timezone_abbreviation",
      "hourly.temperature_2m", "hourly.time">>

HISTORICAL_HOURLY_FIELDS ==
    <<"temperature_2m", "relative_humidity_2m", "wind_speed_10m">>

HISTORICAL_FIELDS ==
    <<"latitude", "longitude", "elevation", "hourly.temperature_2m",
      "hourly.relative_humidity_2m", "hourly.wind_speed_10m">>

----------------------------------------------------------------------------
(* Bounds of the model                                                     *)

MaxCities == 2      \* longest city list
MaxSamples == 2     \* longest hourly array of one location

----------------------------------------------------------------------------
(* The environment: the geocoder and what the two sources may answer       *)

CityNames == {"Reykjavik", "Lhasa", "Atlantis"}

\* geolocator.geocode(city): a location, or None for a name it cannot find.
Geocode(city) ==
    CASE city = "Reykjavik" -> [found |-> TRUE, latitude |-> 64, longitude |-> -21]
      [] city = "Lhasa"     -> [found |-> TRUE, latitude |-> 29, longitude |-> 91]
      [] OTHER              -> [found |-> FALSE, latitude |-> 0, longitude |-> 0]

RECURSIVE SeqsUpTo(_, _)
\* Sequences over S of length at most n.
SeqsUpTo(S, n) ==
    IF n = 0 THEN {<<>>}
    ELSE LET shorter == SeqsUpTo(S, n - 1)
         IN  shorter \cup {Append(s, x) : s \in {t \in shorter : Len(t) = n - 1}, x \in S}

IsDistinct(s) == \A i, j \in DOMAIN s : i # j => s[i] # s[j]

CityLists == {s \in SeqsUpTo(CityNames, MaxCities) : IsDistinct(s)}

\* The clock reading: mid-morning of the day that starts at hour 24.
NowChoices == {30}

\* The grid points the sources answer with, as (latitude, longitude).
RespCoords == {<<64, -22>>, <<29, 91>>}
Elevations == {50, 100}
Times == {22, 23, 24, 25}
Temps == {5, 35}

TimezoneOf(coord) == IF coord[1] = 64 THEN "GMT" ELSE "+06"

IsHourly(s) == \A i \in DOMAIN s : i > 1 => s[i] = s[i - 1] + 1

\* hourly.time of one location: at least one hour, consecutive hours.
TimeArrays == {s \in SeqsUpTo(Times, MaxSamples) : Len(s) >= 1 /\ IsHourly(s)}

\* The hourly object: parallel arrays of equal length.
MainHourlies ==
    UNION {{[time |-> t, temperature_2m |-> v] : v \in [DOMAIN t -> Temps]}
           : t \in TimeArrays}

MainLocations ==
    {[latitude |-> c[1], longitude |-> c[2], elevation |-> e,
      timezone_abbreviation |-> TimezoneOf(c), hourly |-> h]
        : c \in RespCoords, e \in Elevations, h \in MainHourlies}

\* A response: ok with one JSON object per requested location, or not ok.
FailedResponse == [ok |-> FALSE, json |-> <<>>]
NoResponse == [ok |-> FALSE, json |-> <<>>, received |-> FALSE]

Received(r) == [ok |-> r.ok, json |-> r.json, received |-> TRUE]

MainResponses(n) ==
    {FailedResponse} \cup {[ok |-> TRUE, json |-> j] : j \in [1..n -> MainLocations]}

\* The reading of the historical instant: (temperature, humidity, wind).
Snapshots == {<<3, 80, 12>>, <<-4, 65, 20>>}

HistoricalLocations ==
    {[latitude |-> c[1], longitude |-> c[2], elevation |-> 100,
      hourly |-> [temperature_2m |-> <<s[1]>>,
                  relative_humidity_2m |-> <<s[2]>>,
                  wind_speed_10m |-> <<s[3]>>]]
        : c \in RespCoords, s \in Snapshots}

HistoricalResponses(n) ==
    {FailedResponse} \cup {[ok |-> TRUE, json |-> j] : j \in [1..n -> HistoricalLocations]}

----------------------------------------------------------------------------
(* Data-frame primitives                                                   *)

Range(s) == {s[i] : i \in DOMAIN s}

AsStr(x) == <<"str", x>>

RECURSIVE Flatten(_)
\* Concatenation of a sequence of sequences.
Flatten(ss) == IF ss = <<>> THEN <<>> ELSE Head(ss) \o Flatten(Tail(ss))

RECURSIVE SumSeq(_)
SumSeq(s) == IF s = <<>> THEN 0 ELSE Head(s) + SumSeq(Tail(s))

Abs(x) == IF x < 0 THEN -x ELSE x

RECURSIVE Gcd(_, _)
Gcd(a, b) == IF b = 0 THEN a ELSE Gcd(b, a % b)

\* The fraction n/d (d > 0) in lowest terms.
Frac(n, d) == LET g == Gcd(Abs(n), d) IN [num |-> n \div g, den |-> d \div g]

NaN == [num |-> 0, den |-> 0]

\* Variant: the median-like "middle of the extremes" in place of the mean.
MeanOfFirstAndLast(s) ==
    IF s = <<>> THEN NaN ELSE Frac(s[1] + s[Len(s)], 2)

\* Series.mean(): the arithmetic mean, NaN for no values.
Mean(s) == IF s = <<>> THEN NaN ELSE Frac(SumSeq(s), Len(s))

\* mean < threshold, false for NaN as in pandas.
MeanBelow(m, threshold) == m.den > 0 /\ m.num < threshold * m.den

\* df.loc[:, cols] of one row.
Project(row, cols) == [c \in cols |-> row[c]]

\* r'.*\.' replaced by '': the leaf name of a dotted column path.
LeafName(field) ==
    CASE field = "hourly.temperature_2m"       -> "temperature_2m"
      [] field = "hourly.time"                 -> "time"
      [] field = "hourly.relative_humidity_2m" -> "relative_humidity_2m"
      [] field = "hourly.wind_speed_10m"       -> "wind_speed_10m"
      [] OTHER                                 -> field

\* json_normalize, .loc[:, required_fields], leaf names and astype(str) of the
\* coordinates: the one wide row of a location, arrays still in their cells.
NormalizedRow(obj, required_fields) ==
    [c \in {LeafName(f) : f \in Range(required_fields)} |->
        IF c \in {"latitude", "longitude"} THEN AsStr(obj[c])
        ELSE IF c \in DOMAIN obj THEN obj[c]
        ELSE obj.hourly[c]]

\* DataFrame.explode(inner_fields) of one wide row: one row per position of
\* the parallel arrays.
\* (An empty array would leave one row of NaN; the sources send an array
\* entry for every requested hour, so no array here is empty.)
Explode(row, inner_fields) ==
    LET inner == Range(inner_fields)
        n == Len(row[inner_fields[1]])
    IN  [i \in 1..n |->
            [c \in DOMAIN row |-> IF c \in inner THEN row[c][i] ELSE row[c]]]

\* Variant: a response that is not ok is processed like any other.
RequestFailedIgnored(response) == FALSE

\* get_raw_weather_df raises RuntimeError when the response is not ok.
RequestFailed(response) == ~response.ok

\* json_normalize of a body without locations has no columns, and selecting
\* required_fields from it raises KeyError.
ColumnsMissing(response) == response.ok /\ response.json = <<>>

\* get_raw_weather_df on an ok response with at least one location: each
\* location normalised and exploded, rows renumbered.
GetRawWeatherDf(response, required_fields, inner_fields) ==
    Flatten([i \in DOMAIN response.json |->
                Explode(NormalizedRow(response.json[i], required_fields),
                        inner_fields)])

\* Order of the coordinate texts and of group keys (groupby sorts its keys).
StrLess(a, b) == a[2] < b[2]

KeyLess(a, b) ==
    \/ StrLess(a.latitude, b.latitude)
    \/ a.latitude = b.latitude /\ StrLess(a.longitude, b.longitude)
    \/ a.latitude = b.latitude /\ a.longitude = b.longitude
                               /\ a.elevation < b.elevation

RECURSIVE SortKeys(_)
SortKeys(S) ==
    IF S = {} THEN <<>>
    ELSE LET least == CHOOSE k \in S : \A o \in S \ {k} : KeyLess(k, o)
         IN  <<least>> \o SortKeys(S \ {least})

\* The values of one column, in row order.
Column(df, col) == [i \in DOMAIN df |-> df[i][col]]

\* df.groupby(cols, as_index=False).agg({'temperature_2m': 'mean'})
\*   .rename(columns={'temperature_2m': out})
GroupByMean(df, cols, out) ==
    LET keys == SortKeys({Project(df[i], cols) : i \in DOMAIN df})
    IN  [g \in DOMAIN keys |->
            keys[g] @@ (out :> Mean(Column(
                SelectSeq(df, LAMBDA r : Project(r, cols) = keys[g]),
                "temperature_2m")))]

\* pd.merge(left, right, how="inner", on=on): for each left row in order, its
\* matching right rows in order.
Merge(left, right, on) ==
    Flatten([i \in DOMAIN left |->
        LET matches == SelectSeq(right,
                           LAMBDA r : Project(r, on) = Project(left[i], on))
        IN  [j \in DOMAIN matches |-> left[i] @@ matches[j]]])

\* DataFrame.rename with a mapping of column names.
Rename(row, mapping) ==
    LET new(c) == IF c \in DOMAIN mapping THEN mapping[c] ELSE c
    IN  [n \in {new(c) : c \in DOMAIN row} |->
            row[CHOOSE c \in DOMAIN row : new(c) = n]]

\* DataFrame.drop([col], axis=1) of one row.
Drop(row, col) == [c \in DOMAIN row \ {col} |-> row[c]]

----------------------------------------------------------------------------
(* load_aggregate_weather_data                                             *)

\* pd.Timestamp(pd.to_datetime('today').normalize()): the clock cut to the
\* start of its day.
TodayMidnight(clock) == clock - (clock % 24)

grouping_cols == {"latitude", "longitude", "elevation"}

MainRequestParams(latitudes, longitudes) ==
    [kind |-> "main",
     latitude |-> [i \in DOMAIN latitudes |-> AsStr(latitudes[i])],
     longitude |-> [i \in DOMAIN longitudes |-> AsStr(longitudes[i])]]

\* Variant: the past window closed at midnight instead of open.
LastWeekDfInclusive(df, today_midnight) ==
    SelectSeq(df, LAMBDA r : r.time <= today_midnight)

LastWeekDf(df, today_midnight) ==
    SelectSeq(df, LAMBDA r : r.time < today_midnight)

AvgTempsLastWeek(df) == GroupByMean(df, grouping_cols, "avg_temp_last_week")

\* Variant: the elevation bound taken inclusive.
PassesGateInclusive(row) ==
    /\ MeanBelow(row.avg_temp_last_week, AVERAGE_TEMP_THRESHOLD)
    /\ row.elevation >= ELEVATION_THRESHOLD

PassesGate(row) ==
    /\ MeanBelow(row.avg_temp_last_week, AVERAGE_TEMP_THRESHOLD)
    /\ row.elevation > ELEVATION_THRESHOLD

FilteredTemps(avg_temps_last_week) == SelectSeq(avg_temps_last_week, PassesGate)

\* Variant: every re-joined location keeps a row, with the NaN mean of an
\* empty future window.
NextWeekAggregateKeepEmpty(filtered, today_midnight) ==
    LET cols == {"latitude", "longitude", "elevation",
                 "timezone_abbreviation", "avg_temp_last_week"}
        keys == SortKeys({Project(filtered[i], cols) : i \in DOMAIN filtered})
    IN  [g \in DOMAIN keys |->
            Rename(keys[g] @@ ("avg_temp_next_week" :> Mean(Column(
                       SelectSeq(filtered, LAMBDA r :
                           Project(r, cols) = keys[g] /\ r.time >= today_midnight),
                       "temperature_2m"))),
                   [timezone_abbreviation |-> "timezone"])]

\* The rows at or after midnight of the re-joined frame, without 'time',
\* averaged per location and renamed.
NextWeekAggregate(filtered, today_midnight) ==
    LET future == SelectSeq(filtered, LAMBDA r : r.time >= today_midnight)
        dropped == [i \in DOMAIN future |-> Drop(future[i], "time")]
        cols == {"latitude", "longitude", "elevation",
                 "timezone_abbreviation", "avg_temp_last_week"}
        means == GroupByMean(dropped, cols, "avg_temp_next_week")
    IN  [i \in DOMAIN means |->
            Rename(means[i], [timezone_abbreviation |-> "timezone"])]

----------------------------------------------------------------------------
(* append_historical_data and the split of get_weather_data                *)

\* Variant: the request built from every fetched location.
HistoricalRequestParamsAll(df) ==
    LET all == AvgTempsLastWeek(weather_df)
    IN  [kind |-> "historical",
         latitude |-> Column(all, "latitude"),
         longitude |-> Column(all, "longitude")]

HistoricalRequestParams(df) ==
    [kind |-> "historical",
     latitude |-> Column(df, "latitude"),
     longitude |-> Column(df, "longitude")]

historical_hourly_fields_mapping ==
    [temperature_2m |-> "year_start_temp",
     relative_humidity_2m |-> "year_start_humidity",
     wind_speed_10m |-> "year_start_wind_speed"]

HistoricalWeatherDf(raw) ==
    [i \in DOMAIN raw |->
        Project(Rename(raw[i], historical_hourly_fields_mapping),
                {"latitude", "longitude", "year_start_temp",
                 "year_start_humidity", "year_start_wind_speed"})]

\* Variant: a left join, unmatched locations kept with filler readings.
AppendHistoricalLeft(aggregated, historical) ==
    Flatten([i \in DOMAIN aggregated |->
        LET on == {"latitude", "longitude"}
            matches == SelectSeq(historical,
                           LAMBDA r : Project(r, on) = Project(aggregated[i], on))
        IN  IF matches = <<>>
            THEN <<aggregated[i] @@ [year_start_temp |-> -9999,
                                     year_start_humidity |-> -9999,
                                     year_start_wind_speed |-> -9999]>>
            ELSE [j \in DOMAIN matches |-> aggregated[i] @@ matches[j]]])

AppendHistorical(aggregated, historical) ==
    Merge(aggregated, historical, {"latitude", "longitude"})

RECURSIVE DropDuplicates(_)
\* Each row kept at its first occurrence only.
DropDuplicates(df) ==
    IF df = <<>> THEN <<>>
    ELSE LET rest == DropDuplicates(SelectSeq(Tail(df), LAMBDA r : r # Head(df)))
         IN  <<Head(df)>> \o rest

\* Variant: the city table with duplicate rows removed.
CitiesDataDfDistinct(final) ==
    DropDuplicates([i \in DOMAIN final |->
        Project(final[i], {"latitude", "longitude", "elevation", "timezone"})])

CitiesDataDf(final) ==
    [i \in DOMAIN final |->
        Project(final[i], {"latitude", "longitude", "elevation", "timezone"})]

AggregatedInsightsDf(final) ==
    [i \in DOMAIN final |->
        Project(final[i], {"latitude", "longitude", "avg_temp_last_week",
                           "avg_temp_next_week", "year_start_temp",
                           "year_start_humidity", "year_start_wind_speed"})]

----------------------------------------------------------------------------
(* The run                                                                 *)

Init ==
    /\ cities \in CityLists
    /\ now \in NowChoices
    /\ pc = "create_coordinates_dict"
    /\ error = "none"
    /\ lats = <<>>
    /\ lots = <<>>
    /\ calls = <<>>
    /\ main_response = NoResponse
    /\ historical_response = NoResponse
    /\ weather_df = <<>>
    /\ last_week_df = <<>>
    /\ filtered_temps = <<>>
    /\ filtered_weather_df = <<>>
    /\ aggregated_df = <<>>
    /\ final_df = <<>>
    /\ result = <<>>

Fail(exception) ==
    /\ pc' = "failed"
    /\ error' = exception

\* Variant: a city the geocoder cannot find is skipped.
GeocodeOutcomeSkip(location) ==
    [raised |-> FALSE, append |-> location.found,
     latitude |-> location.latitude, longitude |-> location.longitude]

\* What the geocoding loop does with the answer for one city: the
\* coordinates to append, or the AttributeError of reading None.latitude.
GeocodeOutcome(location) ==
    IF location.found
    THEN [raised |-> FALSE, append |-> TRUE,
          latitude |-> location.latitude, longitude |-> location.longitude]
    ELSE [raised |-> TRUE, append |-> FALSE, latitude |-> 0, longitude |-> 0]

\* One iteration of the loop of create_coordinates_dict.
GeocodeCity ==
    /\ pc = "create_coordinates_dict"
    /\ Len(calls) < Len(cities)
    /\ LET city == cities[Len(calls) + 1]
           outcome == GeocodeOutcome(Geocode(city))
       IN  /\ calls' = Append(calls, [kind |-> "geocode", city |-> city])
           /\ IF outcome.raised
              THEN Fail("AttributeError") /\ UNCHANGED <<lats, lots>>
              ELSE /\ lats' = IF outcome.append
                              THEN Append(lats, outcome.latitude) ELSE lats
                   /\ lots' = IF outcome.append
                              THEN Append(lots, outcome.longitude) ELSE lots
                   /\ UNCHANGED <<pc, error>>
    /\ UNCHANGED <<cities, now, main_response, historical_response, weather_df,
                   last_week_df, filtered_temps, filtered_weather_df,
                   aggregated_df, final_df, result>>

\* The rest of load_aggregate_weather_data: the main request and the two
\* stage aggregation.
LoadAggregateWeatherData ==
    /\ pc = "create_coordinates_dict"
    /\ Len(calls) = Len(cities)
    /\ calls' = Append(calls, MainRequestParams(lats, lots))
    /\ \E response \in MainResponses(Len(lats)) :
        /\ main_response' = Received(response)
        /\ IF RequestFailed(response) \/ ColumnsMissing(response)
           THEN /\ Fail(IF RequestFailed(response)
                        THEN "RuntimeError" ELSE "KeyError")
                /\ UNCHANGED <<weather_df, last_week_df, filtered_temps,
                               filtered_weather_df, aggregated_df>>
           ELSE LET today_midnight == TodayMidnight(now)
                    df == GetRawWeatherDf(response, GEO_FIELDS,
                                          <<"time", "temperature_2m">>)
                    last == LastWeekDf(df, today_midnight)
                    kept == FilteredTemps(AvgTempsLastWeek(last))
                    joined == Merge(df, kept, grouping_cols)
                IN  /\ weather_df' = df
                    /\ last_week_df' = last
                    /\ filtered_temps' = kept
                    /\ filtered_weather_df' = joined
                    /\ aggregated_df' = NextWeekAggregate(joined, today_midnight)
                    /\ pc' = "append_historical_data"
                    /\ UNCHANGED error
    /\ UNCHANGED <<cities, now, lats, lots, historical_response, final_df,
                   result>>

\* append_historical_data and the return of get_weather_data.
AppendHistoricalData ==
    /\ pc = "append_historical_data"
    /\ LET params == HistoricalRequestParams(aggregated_df)
       IN  /\ calls' = Append(calls, params)
           /\ \E response \in HistoricalResponses(Len(params.latitude)) :
                /\ historical_response' = Received(response)
                /\ IF RequestFailed(response) \/ ColumnsMissing(response)
                   THEN /\ Fail(IF RequestFailed(response)
                                THEN "RuntimeError" ELSE "KeyError")
                        /\ UNCHANGED <<final_df, result>>
                   ELSE LET raw == GetRawWeatherDf(response, HISTORICAL_FIELDS,
                                                   HISTORICAL_HOURLY_FIELDS)
                            final == AppendHistorical(aggregated_df,
                                                      HistoricalWeatherDf(raw))
                        IN  /\ final_df' = final
                            /\ result' = <<CitiesDataDf(final),
                                           AggregatedInsightsDf(final)>>
                            /\ pc' = "done"
                            /\ UNCHANGED error
    /\ UNCHANGED <<cities, now, lats, lots, main_response, weather_df,
                   last_week_df, filtered_temps, filtered_weather_df,
                   aggregated_df>>

Next ==
    \/ GeocodeCity
    \/ LoadAggregateWeatherData
    \/ AppendHistoricalData

Spec == Init /\ [][Next]_vars

----------------------------------------------------------------------------
(* Vocabulary of the properties, stated on the raw responses               *)

\* Local midnight of the run date.
RunMidnight == CHOOSE m \in 0..now : m % 24 = 0 /\ now - m < 24

MainFetched == main_response.received /\ main_response.ok /\ main_response.json # <<>>

HistoricalFetched ==
    /\ historical_response.received
    /\ historical_response.ok
    /\ historical_response.json # <<>>

KeyOf(row) == [latitude |-> row.latitude, longitude |-> row.longitude,
               elevation |-> row.elevation]

CoordOf(row) == <<row.latitude, row.longitude>>

\* The locations of the raw observation rows.
RawLocations == {KeyOf(weather_df[i]) : i \in DOMAIN weather_df}

PastTemps(k) ==
    Column(SelectSeq(weather_df, LAMBDA r : KeyOf(r) = k /\ r.time < RunMidnight),
           "temperature_2m")

FutureTemps(k) ==
    Column(SelectSeq(weather_df, LAMBDA r : KeyOf(r) = k /\ r.time >= RunMidnight),
           "temperature_2m")

\* m is the arithmetic mean of the non-empty sequence temps.
IsMeanOf(m, temps) ==
    /\ temps # <<>>
    /\ m.den > 0
    /\ m.num * Len(temps) = SumSeq(temps) * m.den

\* The selection gate, from the raw rows of location k.
Survives(k) ==
    /\ PastTemps(k) # <<>>
    /\ SumSeq(PastTemps(k)) < AVERAGE_TEMP_THRESHOLD * Len(PastTemps(k))
    /\ k.elevation > ELEVATION_THRESHOLD

SurvivingCoords == {<<k.latitude, k.longitude>> : k \in {l \in RawLocations : Survives(l)}}

\* The historical objects answering for the coordinates of a row.
HistoricalFor(row) ==
    {h \in Range(historical_response.json) :
        AsStr(h.latitude) = row.latitude /\ AsStr(h.longitude) = row.longitude}

CityRecords == IF Len(result) = 2 THEN result[1] ELSE <<>>
WeatherInsightRecords == IF Len(result) = 2 THEN result[2] ELSE <<>>

GeocodeCalls == SelectSeq(calls, LAMBDA c : c.kind = "geocode")
MainCalls == SelectSeq(calls, LAMBDA c : c.kind = "main")
HistoricalCalls == SelectSeq(calls, LAMBDA c : c.kind = "historical")

----------------------------------------------------------------------------
(* Properties                                                              *)

C2_TablesAligned ==
    Len(result) = 2 =>
        /\ Len(result[1]) = Len(result[2])
        /\ {CoordOf(r) : r \in Range(result[1])} = {CoordOf(r) : r \in Range(result[2])}

\* A run returned the same location twice, with two different snapshots.
C2_Witness ==
    /\ pc = "done"
    /\ Len(result[1]) = 2
    /\ result[1][1] = result[1][2]
    /\ result[2][1] # result[2][2]

\* C3: a row of the raw table is in the past window exactly when its
\* timestamp is before midnight and in the future window exactly when it is
\* at or after midnight; a row at midnight is never in the past window and,
\* for a surviving location, is one of the rows of the future mean.
C3_WindowBoundary ==
    MainFetched =>
        /\ \A r \in Range(weather_df) :
              /\ (r \in Range(last_week_df)) <=> (r.time < RunMidnight)
              /\ (r.time < RunMidnight) <=> ~(r.time >= RunMidnight)
              /\ r.time = RunMidnight => r \notin Range(last_week_df)
        /\ Len(last_week_df) =
              Len(SelectSeq(weather_df, LAMBDA r : r.time < RunMidnight))
        /\ \A a \in Range(aggregated_df) :
              /\ IsMeanOf(a.avg_temp_last_week, PastTemps(KeyOf(a)))
              /\ IsMeanOf(a.avg_temp_next_week, FutureTemps(KeyOf(a)))

\* A surviving location has a sample exactly at midnight and a later one
\* with another temperature.
C3_Witness ==
    /\ MainFetched
    /\ \E a \in Range(aggregated_df) :
          \E r, q \in Range(weather_df) :
              /\ KeyOf(r) = KeyOf(a) /\ KeyOf(q) = KeyOf(a)
              /\ r.time = RunMidnight
              /\ q.time > RunMidnight
              /\ q.temperature_2m # r.temperature_2m

\* C4: a final record carries the mean of its location's past-window
\* temperatures, the mean of its future-window temperatures and the
\* readings of a historical object of the same coordinates; and every
\* surviving location with both windows and a historical object has such a
\* record in both returned tables.
C4_RecordValues ==
    pc = "done" =>
        /\ \A r \in Range(final_df) :
              /\ IsMeanOf(r.avg_temp_last_week, PastTemps(KeyOf(r)))
              /\ IsMeanOf(r.avg_temp_next_week, FutureTemps(KeyOf(r)))
              /\ \E h \in HistoricalFor(r) :
                    /\ r.year_start_temp = h.hourly.temperature_2m[1]
                    /\ r.year_start_humidity = h.hourly.relative_humidity_2m[1]
                    /\ r.year_start_wind_speed = h.hourly.wind_speed_10m[1]
        /\ \A k \in RawLocations :
              (Survives(k) /\ FutureTemps(k) # <<>>) =>
                  \A h \in HistoricalFor(k) :
                      /\ \E r \in Range(result[2]) :
                            /\ CoordOf(r) = CoordOf(k)
                            /\ IsMeanOf(r.avg_temp_last_week, PastTemps(k))
                            /\ IsMeanOf(r.avg_temp_next_week, FutureTemps(k))
                            /\ r.year_start_temp = h.hourly.temperature_2m[1]
                            /\ r.year_start_humidity = h.hourly.relative_humidity_2m[1]
                            /\ r.year_start_wind_speed = h.hourly.wind_speed_10m[1]
                      /\ \E r \in Range(result[1]) : KeyOf(r) = k
        /\ Len(result[2]) = Len(final_df)

\* The run returned exactly one row: past mean 5 over two samples, elevation
\* 100, future mean 20 over two different samples, snapshot (3, 80, 12).
C4_Witness ==
    /\ pc = "done"
    /\ Len(result[2]) = 1
    /\ result[1][1].elevation = 100
    /\ result[2][1].avg_temp_last_week = [num |-> 5, den |-> 1]
    /\ result[2][1].avg_temp_next_week = [num |-> 20, den |-> 1]
    /\ Len(PastTemps(KeyOf(final_df[1]))) = 2
    /\ result[2][1].year_start_temp = 3
    /\ result[2][1].year_start_humidity = 80
    /\ result[2][1].year_start_wind_speed = 12

C6_NoSurvivorEmptyTables ==
    (MainFetched /\ pc # "append_historical_data"
                 /\ \A k \in RawLocations : ~Survives(k)) =>
        /\ pc = "done"
        /\ result = <<(<<>>), (<<>>)>>

\* C7 as claimed: a surviving location without future-window rows has a row
\* whose avg_temp_next_week is null.
C7_NullForEmptyFutureWindow ==
    MainFetched =>
        \A k \in RawLocations :
            (Survives(k) /\ FutureTemps(k) = <<>>) =>
                \E a \in Range(aggregated_df) :
                    KeyOf(a) = k /\ a.avg_temp_next_week = NaN

\* C7 amended: a surviving location without future-window rows has no row
\* at all in the aggregated table, the final table or the city table, and no
\* aggregated row carries a null or a zero standing for an empty window.
C7_EmptyFutureWindowExcluded ==
    MainFetched =>
        /\ \A k \in RawLocations :
              (Survives(k) /\ FutureTemps(k) = <<>>) =>
                  \A r \in Range(aggregated_df) \cup Range(final_df)
                           \cup Range(CityRecords) : KeyOf(r) # k
        /\ \A a \in Range(aggregated_df) :
              /\ a.avg_temp_next_week # NaN
              /\ FutureTemps(KeyOf(a)) # <<>>
              /\ a.avg_temp_next_week.num = 0 => SumSeq(FutureTemps(KeyOf(a))) = 0

\* A surviving location had no sample at or after midnight, another had.
C7_Witness ==
    /\ MainFetched
    /\ \E k \in RawLocations : Survives(k) /\ FutureTemps(k) = <<>>
    /\ aggregated_df # <<>>

\* C8: create_coordinates_dict either ends the run with the AttributeError of
\* a city that was not found, or has, for every city visited so far, the
\* geocoder's coordinates at the city's position; once it has returned, the
\* lists have one entry per city.
C8_CoordinatesAligned ==
    LET g == Len(GeocodeCalls)
    IN  IF error = "AttributeError"
        THEN /\ pc = "failed"
             /\ result = <<>>
             /\ ~Geocode(cities[g]).found
             /\ MainCalls = <<>>
        ELSE /\ Len(lats) = g
             /\ Len(lots) = g
             /\ g <= Len(cities)
             /\ \A i \in 1..g :
                   /\ Geocode(cities[i]).found
                   /\ lats[i] = Geocode(cities[i]).latitude
                   /\ lots[i] = Geocode(cities[i]).longitude
             /\ (pc # "create_coordinates_dict") => g = Len(cities)

\* The resolver has returned the coordinates of two cities.
C8_Witness ==
    /\ pc # "create_coordinates_dict"
    /\ error # "AttributeError"
    /\ Len(cities) = 2
    /\ Len(lats) = 2

\* C9: a response that is not ok ends the run with RuntimeError after that
\* one request, without a later request and without a returned table; a run
\* returns two tables exactly when it is done, and never one table.
C9_FetchFailureFatal ==
    /\ (main_response.received /\ ~main_response.ok) =>
          /\ pc = "failed" /\ error = "RuntimeError"
          /\ Len(MainCalls) = 1 /\ HistoricalCalls = <<>>
          /\ result = <<>>
    /\ (historical_response.received /\ ~historical_response.ok) =>
          /\ pc = "failed" /\ error = "RuntimeError"
          /\ Len(MainCalls) = 1 /\ Len(HistoricalCalls) = 1
          /\ result = <<>>
    /\ pc = "failed" => result = <<>>
    /\ pc = "done" <=> Len(result) = 2
    /\ Len(result) \in {0, 2}
    /\ pc = "done" => main_response.ok /\ historical_response.ok

\* The historical fetch failed after the main fetch had succeeded.
C9_Witness ==
    /\ MainFetched
    /\ historical_response.received
    /\ ~historical_response.ok
    /\ pc = "failed"

\* C10: the outbound calls are one geocoding call per city in list order,
\* then at most one main request, then at most one historical request; the
\* historical request follows a successful main fetch and carries the
\* coordinates of the aggregated rows, all of gate-surviving locations; a
\* completed run has issued all of them.
C10_CallOrder ==
    LET n == Len(cities)
    IN  /\ \A i \in DOMAIN calls :
              /\ i <= n => calls[i] = [kind |-> "geocode", city |-> cities[i]]
              /\ i = n + 1 =>
                    /\ calls[i].kind = "main"
                    /\ calls[i].latitude =
                          [j \in 1..n |-> AsStr(Geocode(cities[j]).latitude)]
                    /\ calls[i].longitude =
                          [j \in 1..n |-> AsStr(Geocode(cities[j]).longitude)]
              /\ i = n + 2 =>
                    /\ calls[i].kind = "historical"
                    /\ MainFetched
                    /\ calls[i].latitude = Column(aggregated_df, "latitude")
                    /\ calls[i].longitude = Column(aggregated_df, "longitude")
                    /\ \A j \in DOMAIN calls[i].latitude :
                          <<calls[i].latitude[j], calls[i].longitude[j]>>
                              \in SurvivingCoords
        /\ Len(calls) <= n + 2
        /\ pc = "done" => Len(calls) = n + 2
        /\ pc = "append_historical_data" => Len(calls) = n + 1

\* A run over two cities completed; the gate had cut one of the two fetched
\* locations before the historical request.
C10_Witness ==
    /\ pc = "done"
    /\ Len(cities) = 2
    /\ Len(calls) = 4
    /\ Len(calls[4].latitude) = 1
    /\ Cardinality(RawLocations) = 2

====
